---- MODULE Spec2Model ----
(***************************************************************************)
(* The clipboard-history engine of filo-clipboard (src/src/lib.rs): the    *)
(* snapshot comparison compare_data and the event loop of run, which keeps *)
(* a bounded history of clipboard snapshots and steps back through it on a *)
(* hotkey.                                                                 *)
(*                                                                         *)
(* A snapshot (Vec<ClipboardItem>) is a set of items, one per format, as   *)
(* EnumFormats yields every format once. The OS message queue, the         *)
(* clipboard and the other processes writing to it are the environment.    *)
(***************************************************************************)
EXTENDS Integers, Sequences, FiniteSets

\* ---------------------------------------------------------------- bounds
\* Number of clipboard formats an application can offer at once. Eleven is
\* the least number at which two snapshots can be Similar under the
\* threshold 230 (10 * 255 >= 11 * 230 while 9 * 255 < 10 * 230).
NumFormats == 11
\* Number of distinct plain-text payloads the user can copy.
NumContents == 2
\* Largest configured history capacity (opts.max_history) explored.
MaxHistory == 2
\* Largest number of messages waiting in the window's message queue.
MaxQueue == 2
\* Formats and payloads of the snapshots compare_data is applied to.
CmpFormats == 3
CmpContents == 2

\* ------------------------------------------------------ program constants
MAX_RETRIES == 10
SIMILARITY_THRESHOLD == 230
CF_TEXT == 1

VARIABLES
    max_history,            \* opts.max_history
    cb_history,             \* VecDeque of snapshots, front first
    last_internal_update,   \* Option<snapshot>: <<>> is None, <<s>> is Some(s)
    skip_clipboard,         \* bool
    clipboard,              \* content of the OS clipboard
    msgs,                   \* messages posted to the window, oldest first
    status,                 \* "running", "exited", "panic_unwrap", "panic_release"
    last,                   \* the branch the last handler took, the history
                            \* length it started from and the force-release
                            \* attempts it made
    run,                    \* the hotkey cycles completed since the last
                            \* state with no clipboard notification waiting
    cmp                     \* two snapshots and the verdict of compare_data
                            \* on them for every threshold

vars == <<max_history, cb_history, last_internal_update, skip_clipboard,
          clipboard, msgs, status, last, run, cmp>>

\* ------------------------------------------------------------- snapshots
Formats == 1..NumFormats

Item(f, c) == [format |-> f, content |-> c]

\* A plain-text copy: the single format CF_TEXT.
Text(c) == {Item(CF_TEXT, c)}
\* A copy offering every format.
Rich == {Item(f, 1) : f \in Formats}
\* The same copy with one format rendered anew.
RichRedraw == (Rich \ {Item(NumFormats, 1)}) \cup {Item(NumFormats, 2)}
\* A clipboard whose only format reads as zero bytes.
Unreadable == {Item(CF_TEXT, 0)}

\* What another process can leave on the clipboard.
ClipboardContents ==
    {{}, Unreadable, Rich, RichRedraw} \cup {Text(c) : c \in 1..NumContents}

\* Lines 146-161: every format whose read gives a non-zero number of bytes.
ReadClipboard(clip) == {x \in clip : x.content # 0}

None == <<>>
Some(s) == <<s>>

MaxMutFirst(a, b) == a

Max(a, b) == IF a >= b THEN a ELSE b
Min(a, b) == IF a <= b THEN a ELSE b

\* ----------------------------------------------------------- compare_data
\* Lines 44-52: the items of cb_data for which the item of prev_cb_data with
\* the same format is equal to it.
CountEq(cb_data, prev_cb_data) ==
    Cardinality({x \in cb_data :
        /\ \E y \in prev_cb_data : y.format = x.format
        /\ (CHOOSE y \in prev_cb_data : y.format = x.format) = x})

ClassifyMut256(count_eq, max_eq, threshold) ==
    IF count_eq = max_eq THEN "Same"
    ELSE IF count_eq * 256 >= max_eq * threshold THEN "Similar"
    ELSE "Different"

ClassifyMutThresholdFirst(count_eq, max_eq, threshold) ==
    IF count_eq * 255 >= max_eq * threshold THEN "Similar"
    ELSE IF count_eq = max_eq THEN "Same"
    ELSE "Different"

\* Lines 56-62.
Classify(count_eq, max_eq, threshold) ==
    IF count_eq = max_eq THEN "Same"
    ELSE IF count_eq * 255 >= max_eq * threshold THEN "Similar"
    ELSE "Different"

compare_data(cb_data, prev_cb_data, threshold) ==
    IF cb_data = {} /\ prev_cb_data = {} THEN "Same"
    ELSE IF cb_data = {} \/ prev_cb_data = {} THEN "Different"
    ELSE Classify(CountEq(cb_data, prev_cb_data),
                  Max(Cardinality(cb_data), Cardinality(prev_cb_data)),
                  threshold)

\* Lines 168-173 and 174-179: the verdict against an Option, Different for None.
Similarity(cb_data, opt) ==
    IF opt = None THEN "Different"
    ELSE compare_data(cb_data, opt[1], SIMILARITY_THRESHOLD)

Front(h) == IF h = <<>> THEN None ELSE Some(h[1])

\* ----------------------------------------------------------- the history
TruncateMutKeepAll(h, n) == h

\* VecDeque::truncate: keep the first n entries.
Truncate(h, n) == SubSeq(h, 1, Min(Len(h), n))

PushFrontMutBack(h, s) == h \o <<s>>

\* VecDeque::push_front.
PushFront(h, s) == <<s>> \o h

\* Line 184, on a non-empty history.
ReplaceFront(h, s) == [h EXCEPT ![1] = s]

PopFrontMutKeep(h) == h

\* VecDeque::pop_front: the remaining history.
PopFront(h) == IF h = <<>> THEN h ELSE Tail(h)

PopFrontItemMutDefault(h) == IF h = <<>> THEN Some({}) ELSE Some(h[1])

\* VecDeque::pop_front: the Option it returns.
PopFrontItem(h) == IF h = <<>> THEN None ELSE Some(h[1])

ArmMutFrontOnly(prev_item_similarity, current_item_similarity) ==
    IF current_item_similarity = "Same" THEN "same"
    ELSE IF "Similar" \in {prev_item_similarity, current_item_similarity}
         THEN "similar"
    ELSE "push"

\* Lines 181-191: which arm of the match is taken.
Arm(prev_item_similarity, current_item_similarity) ==
    IF "Same" \in {prev_item_similarity, current_item_similarity} THEN "same"
    ELSE IF "Similar" \in {prev_item_similarity, current_item_similarity}
         THEN "similar"
    ELSE "push"

\* ------------------------------------------------------------ observers
Branch(op, len, attempts) == [op |-> op, len |-> len, attempts |-> attempts]

\* No WM_CLIPBOARDUPDATE is waiting in the queue q.
Quiescent(q) == \A i \in 1..Len(q) : q[i].type # "clip"

NoRun == [valid |-> FALSE, base |-> <<>>, k |-> 0]

\* A run of hotkey cycles starts in any state in which no clipboard
\* notification is waiting: base is the history there, k counts the cycles
\* completed since. r is the run after the step, h and q the history and the
\* queue after it.
RunAfter(r, h, q) ==
    IF ~r.valid /\ Quiescent(q)
    THEN [valid |-> TRUE, base |-> h, k |-> 0]
    ELSE r

\* threshold: u8
Thresholds == 0..255

\* No comparison on its own: compare_data is called by the handlers.
NoCompare ==
    [a |-> {}, b |-> {}, done |-> FALSE, verdicts |-> <<>>]

\* ------------------------------------------------------------------ Init
Init ==
    /\ max_history \in 1..MaxHistory
    /\ cb_history = <<>>
    /\ last_internal_update = None
    /\ skip_clipboard = FALSE
    /\ clipboard \in ClipboardContents
    /\ msgs = <<>>
    /\ status = "running"
    /\ last = Branch("init", 0, 0)
    /\ run = [valid |-> TRUE, base |-> <<>>, k |-> 0]
    /\ cmp = NoCompare

ClipMsg(origin) == [type |-> "clip", origin |-> origin]
HotkeyMsg == [type |-> "hotkey", origin |-> "user"]

\* ----------------------------------------------------------- environment
\* Another process puts content on the clipboard; the listener registered at
\* line 116 has the OS post WM_CLIPBOARDUPDATE.
UserCopy(s) ==
    /\ status = "running"
    /\ Len(msgs) < MaxQueue
    /\ clipboard' = s
    /\ msgs' = Append(msgs, ClipMsg("user"))
    /\ run' = NoRun
    /\ UNCHANGED <<max_history, cb_history, last_internal_update,
                   skip_clipboard, status, last, cmp>>

\* The user presses Ctrl+Shift+V; the registration at lines 120-126 has the
\* OS post WM_HOTKEY with wParam 1.
PressHotkey ==
    /\ status = "running"
    /\ Len(msgs) < MaxQueue
    /\ msgs' = Append(msgs, HotkeyMsg)
    /\ run' = RunAfter(run, cb_history, msgs')
    /\ UNCHANGED <<max_history, cb_history, last_internal_update,
                   skip_clipboard, clipboard, status, last, cmp>>

\* GetMessageA returns 0 (WM_QUIT) and the loop at line 142 ends.
Quit ==
    /\ status = "running"
    /\ status' = "exited"
    /\ UNCHANGED <<max_history, cb_history, last_internal_update,
                   skip_clipboard, clipboard, msgs, last, run, cmp>>

\* ------------------------------------------------------ WM_CLIPBOARDUPDATE
AcquiredMutIgnoreErr(result) == TRUE

\* Line 145: if let Ok(_clip) = Clipboard::new_attempts(10).
Acquired(result) == result

IsEmptyMutNever(cb_data) == FALSE

\* Line 163: cb_data.is_empty().
IsEmpty(cb_data) == cb_data = {}

\* Lines 144-196. acquired: the outcome of Clipboard::new_attempts(10).
ClipboardUpdate(acquired) ==
    /\ status = "running"
    /\ msgs # <<>>
    /\ Head(msgs).type = "clip"
    /\ msgs' = Tail(msgs)
    /\ UNCHANGED <<max_history, clipboard, cmp>>
    /\ LET cb_data == ReadClipboard(clipboard)
           prev_item_similarity == Similarity(cb_data, last_internal_update)
           current_item_similarity == Similarity(cb_data, Front(cb_history))
           arm == Arm(prev_item_similarity, current_item_similarity)
           n == Len(cb_history)
       IN  IF ~Acquired(acquired) THEN
               /\ last' = Branch("clip_noacquire", n, 0)
               /\ UNCHANGED <<cb_history, last_internal_update,
                              skip_clipboard, status>>
           ELSE IF IsEmpty(cb_data) THEN
               /\ last' = Branch("clip_empty", n, 0)
               /\ UNCHANGED <<cb_history, last_internal_update,
                              skip_clipboard, status>>
           ELSE IF skip_clipboard THEN
               /\ skip_clipboard' = FALSE
               /\ last' = Branch("clip_skip", n, 0)
               /\ UNCHANGED <<cb_history, last_internal_update, status>>
           ELSE IF arm = "same" THEN
               /\ last' = Branch("clip_same", n, 0)
               /\ UNCHANGED <<cb_history, last_internal_update,
                              skip_clipboard, status>>
           ELSE IF arm = "similar" THEN
               IF cb_history = <<>> THEN
                   \* front_mut() is None: unwrap panics at line 184
                   /\ status' = "panic_unwrap"
                   /\ last' = Branch("clip_similar", n, 0)
                   /\ UNCHANGED <<cb_history, last_internal_update,
                                  skip_clipboard>>
               ELSE
                   /\ cb_history' = ReplaceFront(cb_history, cb_data)
                   /\ last_internal_update' = None
                   /\ last' = Branch("clip_similar", n, 0)
                   /\ UNCHANGED <<skip_clipboard, status>>
           ELSE
               /\ cb_history' =
                      Truncate(PushFront(cb_history, cb_data), max_history)
               /\ last_internal_update' = None
               /\ last' = Branch("clip_push", n, 0)
               /\ UNCHANGED <<skip_clipboard, status>>
    /\ run' = RunAfter(IF Head(msgs).origin = "user" THEN NoRun ELSE run,
                       cb_history', msgs')

\* ---------------------------------------------------------------- WM_HOTKEY
\* Lines 248-266: the force-release loop, whose attempts fail `fails` times in
\* a row before one succeeds. The result is the number of attempts made, the
\* final value of retries and whether the loop panicked.
RECURSIVE ReleaseLoop(_, _, _)
ReleaseLoop(fails, attempts, retries) ==
    IF attempts < fails THEN
        \* this attempt returns Err
        IF retries >= MAX_RETRIES
        THEN [attempts |-> attempts + 1, retries |-> retries, panicked |-> TRUE]
        ELSE ReleaseLoop(fails, attempts + 1, retries + 1)
    ELSE [attempts |-> attempts + 1, retries |-> retries, panicked |-> FALSE]

\* clipboard_extras::set_all (line 243): the clipboard after writing snapshot
\* onto a clipboard holding clip. A failed write leaves the clipboard as it
\* was and has no notification posted.
SetAll(snapshot, clip, written) == IF written THEN snapshot ELSE clip

\* Line 240: the new front exists, so suppression is armed and the write tried.
HasFront(h) == h # <<>>

\* The head of the queue is WM_HOTKEY with wParam 1 (lines 197-198).
HotkeyDelivered ==
    /\ status = "running"
    /\ msgs # <<>>
    /\ Head(msgs).type = "hotkey"

\* Lines 197-246, the six-event trigger_keys returning Ok. acquired: the
\* outcome of Clipboard::new_attempts(10); written: the outcome of set_all.
HotkeyCycle(acquired, written) ==
    /\ HotkeyDelivered
    /\ UNCHANGED <<max_history, status, cmp>>
    /\ LET n == Len(cb_history)
           rest == PopFront(cb_history)
       IN  /\ last_internal_update' = PopFrontItem(cb_history)
           /\ cb_history' = rest
           /\ IF HasFront(rest) THEN
                  /\ skip_clipboard' = TRUE
                  /\ IF acquired /\ written THEN
                         /\ clipboard' = SetAll(rest[1], clipboard, written)
                         /\ msgs' = Append(Tail(msgs), ClipMsg("engine"))
                         /\ last' = Branch("hotkey_write", n, 0)
                         /\ run' = RunAfter([run EXCEPT !.k = @ + 1],
                                            rest, msgs')
                     ELSE
                         \* not acquired (no write is tried), or set_all failed
                         /\ clipboard' = IF acquired
                                         THEN SetAll(rest[1], clipboard, written)
                                         ELSE clipboard
                         /\ msgs' = Tail(msgs)
                         /\ last' = Branch("hotkey_nowrite", n, 0)
                         /\ run' = RunAfter(NoRun, rest, msgs')
              ELSE
                  /\ msgs' = Tail(msgs)
                  /\ last' = Branch("hotkey_empty", n, 0)
                  /\ run' = RunAfter(IF n = 0 THEN NoRun
                                     ELSE [run EXCEPT !.k = @ + 1],
                                     rest, msgs')
                  /\ UNCHANGED <<skip_clipboard, clipboard>>

HotkeyReleaseMutPopFirst(fails) ==
    /\ HotkeyDelivered
    /\ msgs' = Tail(msgs)
    /\ LET loop == ReleaseLoop(fails, 0, 0)
       IN  /\ status' = IF loop.panicked THEN "panic_release" ELSE status
           /\ last' = Branch("hotkey_release", Len(cb_history), loop.attempts)
    /\ last_internal_update' = PopFrontItem(cb_history)
    /\ cb_history' = PopFront(cb_history)
    /\ run' = NoRun
    /\ UNCHANGED <<max_history, skip_clipboard, clipboard, cmp>>

\* Lines 197-235 and 247-267, the six-event trigger_keys returning Err. fails:
\* the number of force-release attempts that fail in a row.
HotkeyRelease(fails) ==
    /\ HotkeyDelivered
    /\ msgs' = Tail(msgs)
    /\ LET loop == ReleaseLoop(fails, 0, 0)
       IN  /\ status' = IF loop.panicked THEN "panic_release" ELSE status
           /\ last' = Branch("hotkey_release", Len(cb_history), loop.attempts)
    /\ run' = RunAfter(run, cb_history, msgs')
    /\ UNCHANGED <<max_history, cb_history, last_internal_update,
                   skip_clipboard, clipboard, cmp>>

Next ==
    \/ \E s \in ClipboardContents : UserCopy(s)
    \/ PressHotkey
    \/ Quit
    \/ \E acquired \in BOOLEAN : ClipboardUpdate(acquired)
    \/ \E acquired \in BOOLEAN, written \in BOOLEAN :
          HotkeyCycle(acquired, written)
    \/ \E fails \in 0..(MAX_RETRIES + 1) : HotkeyRelease(fails)

Spec == Init /\ [][Next]_vars

\* A history capacity one above the largest Spec explores.
InitWide ==
    /\ max_history = MaxHistory + 1
    /\ cb_history = <<>>
    /\ last_internal_update = None
    /\ skip_clipboard = FALSE
    /\ clipboard \in ClipboardContents
    /\ msgs = <<>>
    /\ status = "running"
    /\ last = Branch("init", 0, 0)
    /\ run = [valid |-> TRUE, base |-> <<>>, k |-> 0]
    /\ cmp = NoCompare

SpecWide == InitWide /\ [][Next]_vars

\* The contents of which at least one format reads with bytes.
ReadableContents == {s \in ClipboardContents : ReadClipboard(s) # {}}

\* The engine with a clipboard that is never empty and whose acquisitions
\* (lines 145, 242) and writes (line 243) all succeed.
InitReliable ==
    /\ Init
    /\ clipboard \in ReadableContents

NextReliable ==
    \/ \E s \in ReadableContents : UserCopy(s)
    \/ PressHotkey
    \/ Quit
    \/ ClipboardUpdate(TRUE)
    \/ HotkeyCycle(TRUE, TRUE)
    \/ \E fails \in 0..(MAX_RETRIES + 1) : HotkeyRelease(fails)

SpecReliable == InitReliable /\ [][NextReliable]_vars

\* --------------------------------------------------- compare_data alone
\* Every snapshot with at most one item per format, over CmpFormats formats
\* and CmpContents payloads.
CmpItems == {Item(f, c) : f \in 1..CmpFormats, c \in 1..CmpContents}

CmpSnapshots ==
    {s \in SUBSET CmpItems :
        \A x \in s, y \in s : x.format = y.format => x = y}

InitCompare ==
    /\ max_history = 1
    /\ cb_history = <<>>
    /\ last_internal_update = None
    /\ skip_clipboard = FALSE
    /\ clipboard = {}
    /\ msgs = <<>>
    /\ status = "running"
    /\ last = Branch("init", 0, 0)
    /\ run = [valid |-> TRUE, base |-> <<>>, k |-> 0]
    /\ \E a \in CmpSnapshots, b \in CmpSnapshots :
          cmp = [NoCompare EXCEPT !.a = a, !.b = b]

\* compare_data(cmp.a, cmp.b, t) for every threshold t.
Compare ==
    /\ ~cmp.done
    /\ cmp' = [cmp EXCEPT
                  !.done = TRUE,
                  !.verdicts = [t \in Thresholds |->
                                  compare_data(cmp.a, cmp.b, t)]]
    /\ UNCHANGED <<max_history, cb_history, last_internal_update,
                   skip_clipboard, clipboard, msgs, status, last, run>>

NextCompare == Compare

SpecCompare == InitCompare /\ [][NextCompare]_vars

\* ===================================================================
\* Properties
\* ===================================================================
\* The snapshot a clipboard-changed handler captures in the current state and
\* its two verdicts.
NewSnapshot == ReadClipboard(clipboard)
PrevVerdict == Similarity(NewSnapshot, last_internal_update)
CurrVerdict == Similarity(NewSnapshot, Front(cb_history))

\* A step in which a notification is handled, the clipboard is acquired, the
\* snapshot is non-empty and suppression is not pending.
NonSuppressedDelivery ==
    /\ ClipboardUpdate(TRUE)
    /\ NewSnapshot # {}
    /\ ~skip_clipboard

\* C1: in every reachable state the history holds at most max_history
\* entries, whatever notifications and hotkey presses were handled and
\* whatever the clipboard held and the acquisitions returned.
C1_HistoryBounded == Len(cb_history) <= max_history

\* A push onto a full history has been handled.
C1_Witness ==
    /\ last.op = "clip_push"
    /\ last.len = max_history
    /\ Len(cb_history) = max_history

\* C2: a non-suppressed notification whose non-empty snapshot is Different
\* from the history front (or the history is empty) and from
\* last_internal_update (or it is None) puts the snapshot at the front, keeps
\* the old entries behind it in order, makes the length
\* min(old length + 1, max_history) by dropping from the back, and sets
\* last_internal_update to None.
C2_DifferentPushes ==
    [][(/\ NonSuppressedDelivery
        /\ PrevVerdict = "Different"
        /\ CurrVerdict = "Different")
       => /\ Len(cb_history') = Min(Len(cb_history) + 1, max_history)
          /\ cb_history'[1] = NewSnapshot
          /\ \A i \in 2..Len(cb_history') : cb_history'[i] = cb_history[i - 1]
          /\ last_internal_update' = None]_vars

\* max_history = 2 and a third distinct copy has evicted the oldest entry.
C2_Witness ==
    /\ max_history = 2
    /\ last.op = "clip_push"
    /\ last.len = 2
    /\ cb_history = <<Rich, Text(2)>>

\* C3: a non-suppressed notification whose non-empty snapshot is Same as the
\* history front or as last_internal_update, whatever the other verdict,
\* leaves the history, last_internal_update and skip_clipboard unchanged.
C3_SameChangesNothing ==
    [][(/\ NonSuppressedDelivery
        /\ "Same" \in {PrevVerdict, CurrVerdict})
       => UNCHANGED <<cb_history, last_internal_update, skip_clipboard>>]_vars

\* The same text was copied again onto a history of length 1.
C3_Witness ==
    /\ last.op = "clip_same"
    /\ last.len = 1
    /\ cb_history = <<Text(1)>>
    /\ clipboard = Text(1)

\* C4: a non-suppressed notification whose non-empty snapshot has no verdict
\* Same and at least one verdict Similar leaves the length of the history
\* unchanged, makes the snapshot its front, leaves every other entry
\* unchanged and sets last_internal_update to None.
C4_SimilarReplacesFront ==
    [][(/\ NonSuppressedDelivery
        /\ "Same" \notin {PrevVerdict, CurrVerdict}
        /\ "Similar" \in {PrevVerdict, CurrVerdict})
       => /\ Len(cb_history') = Len(cb_history)
          /\ cb_history' # <<>>
          /\ cb_history'[1] = NewSnapshot
          /\ \A i \in 2..Len(cb_history) : cb_history'[i] = cb_history[i]
          /\ last_internal_update' = None]_vars

\* The next notification handled would take the arm that replaces the front.
WouldReplaceFront ==
    /\ status = "running"
    /\ msgs # <<>>
    /\ Head(msgs).type = "clip"
    /\ NewSnapshot # {}
    /\ ~skip_clipboard
    /\ "Same" \notin {PrevVerdict, CurrVerdict}
    /\ "Similar" \in {PrevVerdict, CurrVerdict}

\* C5: the clipboard-changed handler never aborts: whenever it would replace
\* the front, the history is non-empty.
C5_ReplaceFrontNeverAborts ==
    /\ status # "panic_unwrap"
    /\ WouldReplaceFront => cb_history # <<>>

\* C6: a hotkey cycle with a successful write on a history of length >= 2
\* moves the front into last_internal_update, leaves the rest as the history,
\* puts the new front on the clipboard and arms suppression; the notification
\* handled next, caused by an engine write, clears suppression and leaves the
\* history and last_internal_update unchanged.
C6_CycleThenDiscard ==
    [][/\ (HotkeyCycle(TRUE, TRUE) /\ Len(cb_history) >= 2)
          => /\ last_internal_update' = Some(cb_history[1])
             /\ cb_history' = Tail(cb_history)
             /\ clipboard' = cb_history[2]
             /\ skip_clipboard'
       /\ (/\ last.op = "hotkey_write"
           /\ \E acquired \in BOOLEAN : ClipboardUpdate(acquired)
           /\ Head(msgs) = ClipMsg("engine"))
          => /\ ~skip_clipboard'
             /\ UNCHANGED <<cb_history, last_internal_update>>]_vars

\* C7: k <= n successful hotkey cycles, started from a history of length n
\* with no notification waiting and interleaved only with notifications of
\* the engine's own writes, leave the last n - k entries in order; the
\* clipboard holds entry k + 1 of the original history when 1 <= k < n, and
\* the history is empty when k = n.
C7_CyclesWalkBack ==
    run.valid =>
        LET n == Len(run.base)
            k == run.k
        IN  /\ k <= n
            /\ cb_history = SubSeq(run.base, k + 1, n)
            /\ (k >= 1 /\ k < n) => clipboard = run.base[k + 1]
            /\ (k = n) => cb_history = <<>>

\* Both entries of a history of length 2 have been cycled away and the
\* notification of the write has been handled.
C7_Witness ==
    /\ run.valid
    /\ Len(run.base) = 2
    /\ run.k = 2
    /\ Quiescent(msgs)
    /\ cb_history = <<>>

\* One cycle out of two: the clipboard holds the second entry.
C7_WitnessPartial ==
    /\ run.valid
    /\ Len(run.base) = 2
    /\ run.k = 1
    /\ last.op = "clip_skip"

\* C8: a hotkey cycle on an empty history leaves the history empty and the
\* clipboard unchanged, attempts no acquisition and posts no notification,
\* leaves skip_clipboard as it was, sets last_internal_update to None and
\* keeps the engine running.
C8_CycleOnEmptyIsNoOp ==
    [][\A acquired \in BOOLEAN, written \in BOOLEAN :
          (HotkeyCycle(acquired, written) /\ cb_history = <<>>)
          => /\ cb_history' = <<>>
             /\ clipboard' = clipboard
             /\ msgs' = Tail(msgs)
             /\ last'.op = "hotkey_empty"
             /\ skip_clipboard' = skip_clipboard
             /\ last_internal_update' = None
             /\ status' = "running"]_vars

\* A cycle has been handled on an empty history.
C8_Witness ==
    /\ last.op = "hotkey_empty"
    /\ last.len = 0
    /\ status = "running"

\* C9: whenever skip_clipboard is set, a notification of an engine write is
\* waiting, so only notifications the engine caused are discarded.
C9_SuppressionOnlyForOwnWrite ==
    skip_clipboard => \E i \in 1..Len(msgs) : msgs[i] = ClipMsg("engine")

\* C10: a notification handled while skip_clipboard is set leaves it cleared
\* and leaves the history and last_internal_update unchanged, whatever the
\* clipboard holds and whether or not it could be acquired.
C10_FlagClearedByNextNotification ==
    [][((\E acquired \in BOOLEAN : ClipboardUpdate(acquired))
        /\ skip_clipboard)
       => /\ ~skip_clipboard'
          /\ UNCHANGED <<cb_history, last_internal_update>>]_vars

\* The last handler to run was a clipboard-changed handler that found the
\* notification suppressed or classified its snapshot.
ClipOps == {"clip_skip", "clip_same", "clip_similar", "clip_push"}

\* C11 as stated: last_internal_update is None in every state in which a
\* clipboard-changed notification has been handled since the last hotkey.
C11_NoneAfterNextNotification ==
    last.op \in ClipOps => last_internal_update = None

\* C11 as amended: last_internal_update becomes Some only in the hotkey
\* handler; a clipboard-changed handler leaves it unchanged when the
\* notification is not acquired, empty, suppressed or classified Same, and
\* sets it to None when it pushes, or replaces the front of a non-empty
\* history.
C11_ClearedOnlyByPushOrReplace ==
    [][/\ (last_internal_update' # last_internal_update
           /\ last_internal_update' # None)
          => \E acquired \in BOOLEAN, written \in BOOLEAN :
                HotkeyCycle(acquired, written)
       /\ \A acquired \in BOOLEAN :
            ClipboardUpdate(acquired)
            => IF \/ ~acquired
                  \/ NewSnapshot = {}
                  \/ skip_clipboard
                  \/ "Same" \in {PrevVerdict, CurrVerdict}
               THEN last_internal_update' = last_internal_update
               ELSE (cb_history # <<>> \/ "Similar" \notin
                                          {PrevVerdict, CurrVerdict})
                    => last_internal_update' = None]_vars

\* A suppressed notification has been handled and last_internal_update is
\* still Some.
C11_Witness ==
    /\ last.op = "clip_skip"
    /\ last_internal_update # None
    /\ ~skip_clipboard

\* C12: the engine terminates fatally after exactly MAX_RETRIES force-release
\* attempts, the number its error reports, and only when every attempt
\* failed.
C12_PanicAfterBudget ==
    status = "panic_release"
    => /\ last.op = "hotkey_release"
       /\ last.attempts = MAX_RETRIES

\* C13: a notification whose handler cannot acquire the clipboard leaves the
\* history, last_internal_update and skip_clipboard unchanged and the engine
\* running.
C13_NoAcquireIsNoOp ==
    [][ClipboardUpdate(FALSE)
       => /\ UNCHANGED <<cb_history, last_internal_update, skip_clipboard>>
          /\ status' = "running"]_vars

\* An unacquired notification was handled with suppression pending, a
\* pending self-write and a non-empty history.
C13_Witness ==
    /\ last.op = "clip_noacquire"
    /\ skip_clipboard
    /\ last_internal_update # None
    /\ cb_history # <<>>

\* C17: no history entry and no last_internal_update is an empty snapshot or
\* holds a zero-byte item, and a notification that captures an empty snapshot
\* leaves the history unchanged.
C17_NoEmptySnapshotRecorded ==
    /\ [](/\ \A i \in 1..Len(cb_history) :
               /\ cb_history[i] # {}
               /\ \A x \in cb_history[i] : x.content # 0
          /\ last_internal_update # Some({}))
    /\ [][(\E acquired \in BOOLEAN : ClipboardUpdate(acquired))
          /\ NewSnapshot = {}
          => cb_history' = cb_history]_vars

\* An empty capture was handled on an empty history, with nothing to
\* compare it against.
C17_Witness ==
    /\ last.op = "clip_empty"
    /\ last.len = 0
    /\ cb_history = <<>>
    /\ last_internal_update = None
    /\ ReadClipboard(clipboard) = {}
    /\ clipboard # {}

\* C18: a hotkey press whose six-event injection fails leaves the history,
\* last_internal_update, skip_clipboard and the clipboard unchanged and posts
\* no notification, whether a force-release succeeds or the engine panics.
C18_FailedInjectionChangesNothing ==
    [][(HotkeyDelivered
          /\ last'.op = "hotkey_release"
          /\ \E fails \in 0..(MAX_RETRIES + 1) : HotkeyRelease(fails))
        => /\ UNCHANGED <<cb_history, last_internal_update,
                          skip_clipboard, clipboard>>
           /\ msgs' = Tail(msgs)]_vars

\* A failed injection on a history of two entries ended in the fatal error.
C18_Witness ==
    /\ last.op = "hotkey_release"
    /\ status = "panic_release"
    /\ Len(cb_history) = 2

\* C14: no two adjacent history entries are Same, also after a Similar
\* verdict has replaced the front.
C14_AdjacentEntriesDistinct ==
    \A i \in 1..(Len(cb_history) - 1) :
        compare_data(cb_history[i], cb_history[i + 1], SIMILARITY_THRESHOLD)
            # "Same"

\* C20: with every acquisition and write succeeding and a clipboard that is
\* never empty, whenever no notification is waiting and the history is
\* non-empty, the history front is what the clipboard holds.
C20_FrontIsClipboard ==
    (Quiescent(msgs) /\ cb_history # <<>>)
    => cb_history[1] = ReadClipboard(clipboard)

\* The reference classification: c items of a occur in b with the same
\* format and content, u is the larger size.
Reference(a, b, t) ==
    IF a = {} /\ b = {} THEN "Same"
    ELSE IF a = {} \/ b = {} THEN "Different"
    ELSE LET c == Cardinality({x \in a : \E y \in b :
                        y.format = x.format /\ y.content = x.content})
             u == IF Cardinality(a) > Cardinality(b)
                  THEN Cardinality(a) ELSE Cardinality(b)
         IN  IF c = u THEN "Same"
             ELSE IF c * 255 >= u * t THEN "Similar"
             ELSE "Different"

\* C15: for all snapshots a, b and every threshold t in 0..255,
\* compare_data(a, b, t) is the reference classification.
C15_CompareIsReference ==
    cmp.done =>
        \A t \in Thresholds : cmp.verdicts[t] = Reference(cmp.a, cmp.b, t)

\* Two non-empty snapshots were compared that are Similar under one
\* threshold and Different under another.
C15_Witness ==
    /\ cmp.done
    /\ cmp.a # {} /\ cmp.b # {}
    /\ \E t \in Thresholds : cmp.verdicts[t] = "Similar"
    /\ \E t \in Thresholds : cmp.verdicts[t] = "Different"

\* C16: for every non-empty snapshot s and every threshold t,
\* compare_data(s, s, t) is Same.
C16_Reflexive ==
    (cmp.done /\ cmp.a = cmp.b /\ cmp.a # {})
    => \A t \in Thresholds : cmp.verdicts[t] = "Same"

\* A snapshot holding every format was compared with itself.
C16_Witness ==
    /\ cmp.done
    /\ cmp.a = cmp.b
    /\ Cardinality(cmp.a) = CmpFormats

\* C19 as stated: some snapshots a, b with at most one item per format and
\* some threshold t have compare_data(a, b, t) # compare_data(b, a, t)
\* (looked for once a comparison has been made).
C19_SomePairAsymmetric ==
    cmp.done =>
        \E a \in CmpSnapshots, b \in CmpSnapshots, t \in Thresholds :
            compare_data(a, b, t) # compare_data(b, a, t)

\* C19 as amended: over snapshots with at most one item per format the
\* verdict does not depend on the argument order, for every threshold.
C19_Symmetric ==
    cmp.done =>
        \A t \in Thresholds :
            cmp.verdicts[t] = compare_data(cmp.b, cmp.a, t)

\* Two snapshots of different sizes sharing one item were compared, and the
\* verdict is not Same for any threshold.
C19_Witness ==
    /\ cmp.done
    /\ Cardinality(cmp.a) < Cardinality(cmp.b)
    /\ cmp.a \cap cmp.b # {}
    /\ \A t \in Thresholds : cmp.verdicts[t] # "Same"
    /\ \E t \in Thresholds : cmp.verdicts[t] = "Similar"

====
